---- MODULE Spec2Model ----
(***************************************************************************)
(* pdf_render: the font cache and the font handle                          *)
(* (src/src/font/allsorts.rs), the per-document glyph collectors, their    *)
(* finalization, pagination and text emission (src/src/render/context.rs), *)
(* and Renderer::render (src/src/render/renderer.rs).                      *)
(*                                                                         *)
(* The specifications share the variables:                                 *)
(*   Spec       one document (RenderContext) typesetting, finalizing and   *)
(*              emitting text with one font name against a font cache;     *)
(*   SpecCache  the FontCache alone, called by concurrent threads; a step  *)
(*              is one critical section of its RwLock;                     *)
(*   SpecSeq    the FontCache alone, called by a single thread;            *)
(*   SpecPage   one document placing text, lines, frames and new pages;    *)
(*   SpecTwo    one document typesetting with two font names;              *)
(*   SpecRender one run of Renderer::render;                               *)
(*   SpecHandle the FontCache and a Font its caller keeps;                 *)
(*   SpecUnused a document and a registered font it never typesets with;   *)
(*   SpecInk    one document emitting text in styles with colour and       *)
(*              scaling, with glyphs that carry offsets;                   *)
(*   SpecSwap   one document on a cache whose font is replaced and removed *)
(*              between the document's calls;                              *)
(*   SpecBreak  new_page with every combination of options, and lines;     *)
(*   SpecLock   the FontCache called by concurrent threads; a step is the  *)
(*              acquisition of its RwLock or a critical section, and the   *)
(*              threads are scheduled fairly;                              *)
(*   SpecNarrow Font::typeset_collect with glyph ids narrowed to GlyphBits *)
(*              bits.                                                      *)
(***************************************************************************)
EXTENDS Integers, Sequences, FiniteSets, TLC

\* ------------------------------------------------------------------ bounds
\* Arc::new(source) allocations (add into a vacant entry, replace) per run.
MaxSrc == 3
\* Font::new(...) allocations (successful parses) per run.
MaxParse == 3
\* Longest glyph sequence the shaper returns for one typeset call.
MaxLen == 2

\* ------------------------------------------------------------------ inputs
Names == {"f", "g"}
Threads == {"t1", "t2"}
\* The one caller of SpecSeq and of Spec.
Main == "t1"
\* The font names the document of Spec uses.
DocNames == {"f"}

\* Byte buffers a caller can register. "ttfA" and "ttfB" are well-formed
\* fonts, "junk" is no font container, "notables" is a container that lacks
\* the tables allsorts::Font::new requires.
Bytes == {"ttfA", "ttfB", "junk", "notables"}

\* scope.read::<FontData>() and table_provider(NON_TTC_TABLE) succeed.
IsContainer(b) == b \in {"ttfA", "ttfB", "notables"}
\* allsorts::Font::new(provider) succeeds.
HasTables(b) == b \in {"ttfA", "ttfB"}
\* Glyph ids of a font are 0 .. NumGlyphs - 1; glyph 0 is .notdef.
NumGlyphs(b) == IF b = "ttfA" THEN 3 ELSE IF b = "ttfB" THEN 2 ELSE 0

\* ------------------------------------------------------------------ values
\* FontSource = Arc<Cow<[u8]>>: the bytes and the identity of the allocation.
NoSource == [bytes |-> "none", id |-> 0]
\* Font = Arc<Mutex<CachedAllsortsFont>>: the identity of the allocation and
\* the source the parsed font borrows from.
NoFont == [hid |-> 0, src |-> NoSource]
\* CachedFont; NoEntry stands for a name the HashMap does not hold.
NoEntry == [source |-> NoSource, parsed |-> NoFont]

\* Result<Font, Error>, and the other return values of the model.
\* kind: "Ok" | "UnknownFont" | "MalformedFont" | "ParseError" | "Pending"
\*       | "SubsetError" | "PdfWrite" | "PositionError" | "Panic" | "None"
\*       | "True" | "False" (the bool of remove)
Res(kind, arg, font) == [kind |-> kind, arg |-> arg, font |-> font]
Ok(font) == Res("Ok", "", font)
Err(kind, arg) == Res(kind, arg, NoFont)
Pending == Res("Pending", "", NoFont)
IsErr(r) == r.kind \notin {"Ok", "Pending", "None"}

VARIABLES
  cache,        \* FontCache.inner: name -> CachedFont (NoEntry when absent)
  next_src,     \* identity of the next Arc::new(source)
  next_hid,     \* identity of the next Font::new(cached_font)
  pc,           \* per thread: where it stands inside FontCache::get
  last,         \* the call (or critical section) just executed, its result
  render_fonts, \* RenderFonts.render_fonts: Vec<RenderFont>
  held,         \* the TextPosition the layout keeps from a typeset call, and
                \* the font name it was typeset with
  issued,       \* history: per name, the pairs <<original glyph id, local
                \* id>> typeset has returned
  firsts,       \* history: per name, glyph 0 and then the original glyph ids
                \* in the order the shaper first produced them
  locks,        \* per thread: the FontCache call it is in, which lock of
                \* FontCache.inner it holds and which it waits for, and how
                \* many calls it has made
  shaped_from,  \* history: per name, the sources (Arc allocations) against
                \* which the typeset calls that returned glyphs were shaped
  page,         \* RenderContext: page_margin, page_size, page_start, page_end,
                \* the number of pages of its document, which of them is
                \* the current page, and the text state of its layer
  render,       \* Renderer::render: the statement it stands at, the error it
                \* returned, whether it returned the document's bytes
  handle        \* a Font a caller of the cache keeps: a clone of what a get
                \* returned (NoFont: none)

\* What the calls on a RenderContext leave alone: the Renderer that may own
\* it, and the caller of the cache.
caller_vars == <<render, handle>>
ctx_vars == <<render_fonts, held, issued, firsts, shaped_from,
              page, render, handle>>
doc_vars == <<render_fonts, held, issued, firsts, shaped_from, locks,
              page, render, handle>>
vars == <<cache, next_src, next_hid, pc, last, render_fonts, held, issued,
          firsts, shaped_from, locks, page, render, handle>>

\* IndirectFontRef: the embedded subset, that is the glyph-id list it was
\* built from and the source it was cut from. NoRef stands for None.
NoRef == [glyphs |-> <<>>, src |-> NoSource]
NoText == [name |-> "", glyphs |-> <<>>, positions |-> <<>>]
NoRun == [ref |-> NoRef, glyphs |-> <<>>]

\* Option<Rgba> of a style: NoColor stands for None.
NoColor == ""
Colors == {NoColor, "black", "red"}

\* The Style a text is placed with: its font name ("": the style has no font
\* name or no size), its colour and its horizontal scaling, as a factor
\* (1: the style sets none). PlainStyle sets neither colour nor scaling.
Scalings == {1, 2}
PlainStyle(name) == [name |-> name, color |-> NoColor, scaling |-> 1]
Styles(names) ==
  {[name |-> n, color |-> c, scaling |-> f] :
     n \in names, c \in Colors, f \in Scalings}

Idle == [at |-> "idle", name |-> "", seen |-> 0]

\* A thread that is in no FontCache call and holds no lock.
\*   op     "none" | "get" | "add" | "replace" | "remove"
\*   holds  the guard of FontCache.inner it has: "none" | "read" | "write"
\*   wants  the lock it is blocked on: "none" | "read" | "write"
\*   seen   for a get: the source its read block found (0: none)
\*   calls  the calls it has made so far
NoCall == [op |-> "none", name |-> "", bytes |-> "", holds |-> "none",
           wants |-> "none", seen |-> 0, calls |-> 0]

\* What allsorts does in one Font::typeset:
\*   err     whether font.shape returned Err((error, shapes)), not Ok(shapes)
\*   shapes  the glyph ids of the (partial) sequence it returned
\*   positioned  whether glyph_positions() returned Ok
NoShaping == [err |-> FALSE, shapes |-> <<>>, positioned |-> FALSE]

\* The event record of `last`.
\*   op    the operation;  name, bytes  its arguments
\*   res   what it returned (Pending: get left its read phase without a result)
\*   parse whether the step invoked CachedAllsortsFont::from_source
\*   seen  for a get: the identity of the source registered under the name
\*         when the get started (0: none)
\*   run   for a text: the glyph run written, its embedding handle and ids
\*   handed  for a complete: the glyph-id lists passed to the subsetter, in
\*         call order
\*   at    for a placement: the content offsets it was given
\*   height  for a placement: the content height it passed to check_page_break
\*         (-1: it did not call check_page_break)
\*   new_page  for a placement: what check_page_break returned
\*   out   for a placement: the output coordinates it drew at
\*   baseline  for a text: its position_is_baseline argument
\*   shaping  for a Font::typeset: what the shaper and glyph_positions did
\*   ops   for a text: the calls it made on the layer, in order
\*   style for a text: the style it was given
\*   options  for a new_page: the NewPageOptions it was given
Event(op, name, bytes, res, parse, seen) ==
  [op |-> op, name |-> name, bytes |-> bytes, res |-> res,
   parse |-> parse, seen |-> seen, run |-> NoRun, handed |-> <<>>,
   at |-> <<>>, height |-> -1, new_page |-> FALSE, out |-> <<>>,
   baseline |-> TRUE, shaping |-> NoShaping, ops |-> <<>>,
   style |-> PlainStyle(""), options |-> <<>>]

\* ------------------------------------------------------- FontCache, pure
\* CachedAllsortsFont::from_source: the two `?` convert allsorts' ParseError
\* with the From impl of layout::Error, which is not given the font name;
\* only the failure of allsorts::Font::new is mapped to MalformedFont(name).
from_source(name, source) ==
  IF ~IsContainer(source.bytes) THEN Err("ParseError", "")
  ELSE IF ~HasTables(source.bytes) THEN Err("MalformedFont", name)
  ELSE Ok(NoFont)

\* Mutant of add_cow_occupied: replace stores the new source and keeps the
\* cached parse.
add_cow_occupied_keeps_parse(entry, bytes, replace, id) ==
  IF replace
  THEN [source |-> [bytes |-> bytes, id |-> id], parsed |-> entry.parsed]
  ELSE entry

\* Mutant of add_cow_occupied: the replace flag is ignored.
add_cow_occupied_always(entry, bytes, replace, id) ==
  [source |-> [bytes |-> bytes, id |-> id], parsed |-> NoFont]

\* add_cow on an occupied entry.
add_cow_occupied(entry, bytes, replace, id) ==
  IF replace THEN [source |-> [bytes |-> bytes, id |-> id], parsed |-> NoFont]
  ELSE entry

\* add_cow: the new map.
add_cow(c, name, bytes, replace, id) ==
  IF c[name] # NoEntry
  THEN [c EXCEPT ![name] = add_cow_occupied(c[name], bytes, replace, id)]
  ELSE [c EXCEPT ![name] = [source |-> [bytes |-> bytes, id |-> id],
                            parsed |-> NoFont]]

\* Whether add_cow allocates an Arc for the source.
add_cow_allocates(c, name, replace) == c[name] = NoEntry \/ replace

\* Mutant of get_read: the cached parse is never returned.
get_read_no_hit(c, name) ==
  IF c[name] = NoEntry THEN Err("UnknownFont", name) ELSE Pending

\* FontCache::get, the block under the read lock: the result, or Pending
\* when the entry holds no parsed font.
get_read(c, name) ==
  IF c[name] = NoEntry THEN Err("UnknownFont", name)
  ELSE IF c[name].parsed # NoFont THEN Ok(c[name].parsed)
  ELSE Pending

\* Mutant of get_write: a missing entry is created empty (entry().or_insert)
\* instead of reported.
get_write_or_insert(c, name, hid) ==
  IF c[name] = NoEntry
  THEN [cache |-> [c EXCEPT ![name] = [source |-> [bytes |-> "junk", id |-> 0],
                                       parsed |-> NoFont]],
        res |-> Err("ParseError", ""), parse |-> TRUE]
  ELSE LET r == from_source(name, c[name].source)
           font == [hid |-> hid, src |-> c[name].source]
       IN IF r.kind # "Ok"
          THEN [cache |-> c, res |-> r, parse |-> TRUE]
          ELSE [cache |-> [c EXCEPT ![name].parsed = font],
                res |-> Ok(font), parse |-> TRUE]

\* Mutant of get_write: the font is parsed from a copy of the source bytes
\* (an allocation of its own, here with the identity -1), not from a clone
\* of the entry's Arc.
get_write_copies(c, name, hid) ==
  IF c[name] = NoEntry
  THEN [cache |-> c, res |-> Err("UnknownFont", name), parse |-> FALSE]
  ELSE LET r == from_source(name, c[name].source)
           font == [hid |-> hid,
                    src |-> [bytes |-> c[name].source.bytes, id |-> -1]]
       IN IF r.kind # "Ok"
          THEN [cache |-> c, res |-> r, parse |-> TRUE]
          ELSE [cache |-> [c EXCEPT ![name].parsed = font],
                res |-> Ok(font), parse |-> TRUE]

\* FontCache::get, the part under the write lock: the entry is looked up
\* again, its source parsed and the parsed font stored; `parsed` is not
\* looked at.
get_write(c, name, hid) ==
  IF c[name] = NoEntry
  THEN [cache |-> c, res |-> Err("UnknownFont", name), parse |-> FALSE]
  ELSE LET r == from_source(name, c[name].source)
           font == [hid |-> hid, src |-> c[name].source]
       IN IF r.kind # "Ok"
          THEN [cache |-> c, res |-> r, parse |-> TRUE]
          ELSE [cache |-> [c EXCEPT ![name].parsed = font],
                res |-> Ok(font), parse |-> TRUE]

\* ------------------------------------------------------- pagination, pure
\* Most pages a document gets in a run.
MaxPages == 3

\* The margin and size the RenderContext is constructed with: a content
\* window 550 wide and 700 high. The other geometries a new_page can ask for.
FirstMargin == [left |-> 20, top |-> 50, right |-> 30, bottom |-> 50]
FirstSize == [width |-> 600, height |-> 800]
Margins == {FirstMargin, [left |-> 0, top |-> 0, right |-> 0, bottom |-> 0]}
Sizes == {FirstSize, [width |-> 210, height |-> 297]}

\* text.height * font_size and text.ascent() * font_size of the kept text,
\* and the font size of the style.
Metrics == [height |-> 30, ascent |-> 24, font_size |-> 10]

\* Content offsets placements are made at.
Ys == {0, 20, 650, 669, 670, 671, 680}
Points == {[x |-> 10, y |-> y] : y \in Ys}
LowPoint == [x |-> 10, y |-> 680]

\* Renderer::render has not been called: the RenderContext is used directly.
\*   at   the statement render stands at: "none" | "measure" | "lay_out"
\*        | "complete" | "render" | "save" | "done"
\*   res  what render returned ("None": it has not returned; "Panic": it
\*        unwound)
\*   pdf  whether it returned the document's bytes
\*   finalized  whether it has called complete_fonts
NotRendering ==
  [at |-> "none", res |-> "None", pdf |-> FALSE, finalized |-> FALSE]

\* Option<Offset>, Option<&Quad>, Option<&Size>: NoOffset, NoQuad and NoSize
\* stand for None.
NoOffset == [some |-> FALSE, x |-> 0, y |-> 0]
NoQuad == [left |-> -1, top |-> -1, right |-> -1, bottom |-> -1]
NoSize == [width |-> -1, height |-> -1]
Offset_new(x, y) == [x |-> x, y |-> y]
SomeOffset(o) == [some |-> TRUE, x |-> o.x, y |-> o.y]

\* The text state of a PdfLayerReference as the document hands it out: black
\* fill, 100 % horizontal scaling.
NewLayer == [fill_color |-> "black", text_scaling |-> 100]

\* Quad::width, Quad::height and Quad::offset of the layout crate, which is
\* not among the sources: the margin's horizontal and vertical extent, and an
\* offset moved right by the left margin and down by the top margin.
Quad_width(margin) == margin.left + margin.right
Quad_height(margin) == margin.top + margin.bottom
Quad_offset(margin, o) == Offset_new(o.x + margin.left, o.y + margin.top)

\* Mutant of set_page_offsets: the window starts at the top of the flow.
set_page_offsets_at_zero(p, content_offset) ==
  [p EXCEPT !.page_start = SomeOffset(Offset_new(0, 0)),
            !.page_end = SomeOffset(Offset_new(
               p.page_size.width - Quad_width(p.page_margin),
               p.page_size.height - Quad_height(p.page_margin)))]

\* RenderContext::set_page_offsets.
set_page_offsets(p, content_offset) ==
  [p EXCEPT !.page_start = SomeOffset(Offset_new(0, content_offset)),
            !.page_end = SomeOffset(Offset_new(
               0 + p.page_size.width - Quad_width(p.page_margin),
               content_offset + p.page_size.height
                 - Quad_height(p.page_margin)))]

\* RenderContext::new, the geometry it sets up: the window of the first page
\* is established at content offset 0.
RenderContext_new(margin, size) ==
  set_page_offsets([page_margin |-> margin, page_size |-> size,
                    page_start |-> NoOffset, page_end |-> NoOffset,
                    pages |-> 1, current |-> 1, layer |-> NewLayer], 0)

\* Mutant of new_page_internal: the content window is kept.
new_page_internal_keeps_window(p, margin, size) ==
  [p EXCEPT !.page_margin = IF margin # NoQuad THEN margin ELSE @,
            !.page_size = IF size # NoSize THEN size ELSE @,
            !.pages = @ + 1,
            !.current = p.pages + 1,
            !.layer = NewLayer]

\* Mutant of new_page_internal: margin and size are not taken over.
new_page_internal_keeps_geometry(p, margin, size) ==
  [p EXCEPT !.page_start = NoOffset,
            !.page_end = NoOffset,
            !.pages = @ + 1,
            !.current = p.pages + 1,
            !.layer = NewLayer]

\* RenderContext::new_page_internal: the page is added to the document and
\* becomes, with its layer, the current one.
new_page_internal(p, margin, size) ==
  [p EXCEPT !.page_margin = IF margin # NoQuad THEN margin ELSE @,
            !.page_size = IF size # NoSize THEN size ELSE @,
            !.page_start = NoOffset,
            !.page_end = NoOffset,
            !.pages = @ + 1,
            !.current = p.pages + 1,
            !.layer = NewLayer]

\* Mutant of check_page_break: after a break no window is established.
check_page_break_keeps_cleared(p, content_offset, content_height) ==
  LET new_page == /\ p.page_end.some
                  /\ content_offset + content_height > p.page_end.y
  IN [page |-> IF new_page THEN new_page_internal(p, NoQuad, NoSize)
               ELSE IF ~p.page_start.some
               THEN set_page_offsets(p, content_offset) ELSE p,
      new_page |-> new_page]

\* Mutant of check_page_break: the page is broken only for a placement that
\* starts beyond the window's end.
check_page_break_ignores_height(p, content_offset, content_height) ==
  LET new_page == /\ p.page_end.some
                  /\ content_offset > p.page_end.y
      p1 == IF new_page THEN new_page_internal(p, NoQuad, NoSize) ELSE p
  IN [page |-> IF ~p1.page_start.some
               THEN set_page_offsets(p1, content_offset) ELSE p1,
      new_page |-> new_page]

\* Mutant of check_page_break: a placement that ends on the window's end
\* breaks the page too.
check_page_break_inclusive(p, content_offset, content_height) ==
  LET new_page == /\ p.page_end.some
                  /\ content_offset + content_height >= p.page_end.y
      p1 == IF new_page THEN new_page_internal(p, NoQuad, NoSize) ELSE p
  IN [page |-> IF ~p1.page_start.some
               THEN set_page_offsets(p1, content_offset) ELSE p1,
      new_page |-> new_page]

\* RenderContext::check_page_break.
check_page_break(p, content_offset, content_height) ==
  LET new_page == /\ p.page_end.some
                  /\ content_offset + content_height > p.page_end.y
      p1 == IF new_page THEN new_page_internal(p, NoQuad, NoSize) ELSE p
  IN [page |-> IF ~p1.page_start.some
               THEN set_page_offsets(p1, content_offset) ELSE p1,
      new_page |-> new_page]

\* Mutant of page_content_offset: the window start is not subtracted.
page_content_offset_untranslated(p, content_offset) == content_offset

\* RenderContext::page_content_offset.
page_content_offset(p, content_offset) ==
  IF p.page_start.some
  THEN Offset_new(content_offset.x - p.page_start.x,
                  content_offset.y - p.page_start.y)
  ELSE content_offset

\* RenderContext::swap_y.
swap_y(p, page_position) ==
  Offset_new(page_position.x, p.page_size.height - page_position.y)

\* ---------------------------------------------------- FontCache, actions
Init ==
  /\ cache = [n \in Names |-> NoEntry]
  /\ next_src = 1
  /\ next_hid = 1
  /\ pc = [t \in Threads |-> Idle]
  /\ last = Event("new", "", "", Res("None", "", NoFont), FALSE, 0)
  /\ render_fonts = <<>>
  /\ held = NoText
  /\ issued = [n \in Names |-> {}]
  /\ firsts = [n \in Names |-> <<0>>]
  /\ shaped_from = [n \in Names |-> {}]
  /\ locks = [t \in Threads |-> NoCall]
  /\ page = RenderContext_new(FirstMargin, FirstSize)
  /\ render = NotRendering
  /\ handle = NoFont

\* FontCache::add / add_owned.
Add(t, name, bytes) ==
  /\ pc[t] = Idle
  /\ add_cow_allocates(cache, name, FALSE) => next_src <= MaxSrc
  /\ cache' = add_cow(cache, name, bytes, FALSE, next_src)
  /\ next_src' = IF add_cow_allocates(cache, name, FALSE)
                 THEN next_src + 1 ELSE next_src
  /\ last' = Event("add", name, bytes, Res("Ok", "", NoFont), FALSE, 0)
  /\ UNCHANGED <<next_hid, pc>>
  /\ UNCHANGED doc_vars

\* FontCache::replace / replace_owned.
Replace(t, name, bytes) ==
  /\ pc[t] = Idle
  /\ next_src <= MaxSrc
  /\ cache' = add_cow(cache, name, bytes, TRUE, next_src)
  /\ next_src' = next_src + 1
  /\ last' = Event("replace", name, bytes, Res("Ok", "", NoFont), FALSE, 0)
  /\ UNCHANGED <<next_hid, pc>>
  /\ UNCHANGED doc_vars

\* FontCache::remove.
Remove(t, name) ==
  /\ pc[t] = Idle
  /\ cache' = [cache EXCEPT ![name] = NoEntry]
  /\ last' = Event("remove", name, "",
                   Res(IF cache[name] # NoEntry THEN "True" ELSE "False",
                       "", NoFont), FALSE, 0)
  /\ UNCHANGED <<next_src, next_hid, pc>>
  /\ UNCHANGED doc_vars

\* FontCache::get up to the end of the read-locked block.
GetRead(t, name) ==
  /\ pc[t] = Idle
  /\ LET r == get_read(cache, name)
     IN /\ pc' = IF r = Pending
                 THEN [pc EXCEPT ![t] = [at |-> "get_write", name |-> name,
                                         seen |-> cache[name].source.id]]
                 ELSE pc
        /\ last' = Event("get", name, "", r, FALSE, cache[name].source.id)
  /\ UNCHANGED <<cache, next_src, next_hid>>
  /\ UNCHANGED doc_vars

\* FontCache::get from the write lock to its return.
GetWrite(t) ==
  /\ pc[t].at = "get_write"
  /\ next_hid <= MaxParse
  /\ LET w == get_write(cache, pc[t].name, next_hid)
     IN /\ cache' = w.cache
        /\ next_hid' = IF w.res.kind = "Ok" THEN next_hid + 1 ELSE next_hid
        /\ last' = Event("get", pc[t].name, "", w.res, w.parse, pc[t].seen)
  /\ pc' = [pc EXCEPT ![t] = Idle]
  /\ UNCHANGED next_src
  /\ UNCHANGED doc_vars

NextCache ==
  \E t \in Threads :
    \/ \E n \in Names, b \in Bytes : Add(t, n, b)
    \/ \E n \in Names, b \in Bytes : Replace(t, n, b)
    \/ \E n \in Names : Remove(t, n)
    \/ \E n \in Names : GetRead(t, n)
    \/ GetWrite(t)

SpecCache == Init /\ [][NextCache]_vars

NextSeq ==
  \/ \E n \in Names, b \in Bytes : Add(Main, n, b)
  \/ \E n \in Names, b \in Bytes : Replace(Main, n, b)
  \/ \E n \in Names : Remove(Main, n)
  \/ \E n \in Names : GetRead(Main, n)
  \/ GetWrite(Main)

SpecSeq == Init /\ [][NextSeq]_vars

\* ------------------------------------------ FontCache, the lock of `inner`
\* Most calls a thread makes on the cache in a run.
MaxCalls == 2

\* The fonts the threads of a run register: one that parses and one that
\* does not.
LockBytes == {"ttfA", "junk"}

\* Mutant of get_read_unlock: the read guard lives to the end of get, so the
\* write lock is requested while the read lock is held.
get_read_keeps_guard(call, r) ==
  IF r = Pending THEN [call EXCEPT !.wants = "write"]
  ELSE [NoCall EXCEPT !.calls = call.calls]

\* FontCache::get at the end of its read-locked block: the guard is dropped
\* with the block; the call returns a result, or goes on to ask for the
\* write lock.
get_read_unlock(call, r) ==
  IF r = Pending THEN [call EXCEPT !.holds = "none", !.wants = "write"]
  ELSE [NoCall EXCEPT !.calls = call.calls]

\* A thread enters get, add, replace or remove: get asks for the read lock,
\* the others for the write lock.
Call(t, op, name, bytes) ==
  /\ locks[t].op = "none"
  /\ locks[t].calls < MaxCalls
  /\ locks' = [locks EXCEPT ![t] =
                 [op |-> op, name |-> name, bytes |-> bytes, holds |-> "none",
                  wants |-> IF op = "get" THEN "read" ELSE "write",
                  seen |-> 0, calls |-> @.calls + 1]]
  /\ UNCHANGED <<cache, next_src, next_hid, pc, last>>
  /\ UNCHANGED ctx_vars

\* RwLock::read returns: no thread holds the write lock.
AcquireRead(t) ==
  /\ locks[t].wants = "read"
  /\ \A u \in Threads : locks[u].holds # "write"
  /\ locks' = [locks EXCEPT ![t].holds = "read", ![t].wants = "none"]
  /\ UNCHANGED <<cache, next_src, next_hid, pc, last>>
  /\ UNCHANGED ctx_vars

\* RwLock::write returns: no thread holds the lock, the caller included.
AcquireWrite(t) ==
  /\ locks[t].wants = "write"
  /\ \A u \in Threads : locks[u].holds = "none"
  /\ locks' = [locks EXCEPT ![t].holds = "write", ![t].wants = "none"]
  /\ UNCHANGED <<cache, next_src, next_hid, pc, last>>
  /\ UNCHANGED ctx_vars

\* FontCache::get, the block under the read lock, to the drop of the guard.
ReadBlock(t) ==
  /\ locks[t].holds = "read"
  /\ locks[t].wants = "none"
  /\ LET name == locks[t].name
         r == get_read(cache, name)
     IN /\ locks' = [locks EXCEPT ![t] =
                       get_read_unlock([@ EXCEPT !.seen =
                                          cache[name].source.id], r)]
        /\ last' = Event("get", name, "", r, FALSE, cache[name].source.id)
  /\ UNCHANGED <<cache, next_src, next_hid, pc>>
  /\ UNCHANGED ctx_vars

\* add_cow, remove, and get from the write lock on: what is done under the
\* write lock, to the drop of the guard at the return.
WriteBlock(t) ==
  /\ locks[t].holds = "write"
  /\ LET call == locks[t]
         w == get_write(cache, call.name, next_hid)
         replace == call.op = "replace"
     IN IF call.op = "get"
        THEN /\ cache' = w.cache
             /\ next_hid' = IF w.res.kind = "Ok" THEN next_hid + 1
                            ELSE next_hid
             /\ next_src' = next_src
             /\ last' = Event("get", call.name, "", w.res, w.parse, call.seen)
        ELSE IF call.op = "remove"
        THEN /\ cache' = [cache EXCEPT ![call.name] = NoEntry]
             /\ last' = Event("remove", call.name, "",
                              Res(IF cache[call.name] # NoEntry
                                  THEN "True" ELSE "False", "", NoFont),
                              FALSE, 0)
             /\ UNCHANGED <<next_src, next_hid>>
        ELSE /\ cache' = add_cow(cache, call.name, call.bytes, replace,
                                 next_src)
             /\ next_src' = IF add_cow_allocates(cache, call.name, replace)
                            THEN next_src + 1 ELSE next_src
             /\ next_hid' = next_hid
             /\ last' = Event(call.op, call.name, call.bytes,
                              Res("Ok", "", NoFont), FALSE, 0)
  /\ locks' = [locks EXCEPT ![t] = [NoCall EXCEPT !.calls = @ + locks[t].calls]]
  /\ UNCHANGED pc
  /\ UNCHANGED ctx_vars

\* Threads that share one cache and call get, add, replace and remove on one
\* name; a thread that can take a step takes it (the scheduler is fair, and a
\* lock that stays free is handed to a thread that waits for it).
NextLock ==
  \E t \in Threads :
    \/ \E op \in {"get", "remove"} : Call(t, op, "f", "")
    \/ \E op \in {"add", "replace"}, b \in LockBytes : Call(t, op, "f", b)
    \/ AcquireRead(t)
    \/ AcquireWrite(t)
    \/ ReadBlock(t)
    \/ WriteBlock(t)

SpecLock ==
  /\ Init /\ [][NextLock]_vars
  /\ \A t \in Threads :
       /\ WF_vars(AcquireRead(t)) /\ WF_vars(AcquireWrite(t))
       /\ WF_vars(ReadBlock(t)) /\ WF_vars(WriteBlock(t))

\* ------------------------------------------------------ the document, pure
\* FontCache::get as one call of a single caller: the read-locked block and,
\* when it gives no result, the write-locked part. hid: the next Font identity.
get(c, name, hid) ==
  LET r == get_read(c, name)
      w == IF r = Pending THEN get_write(c, name, hid)
           ELSE [cache |-> c, res |-> r, parse |-> FALSE]
  IN [cache |-> w.cache, res |-> w.res, parse |-> w.parse,
      hid |-> IF w.parse /\ w.res.kind = "Ok" THEN hid + 1 ELSE hid]

\* Fonts::get, the handle through which the document reaches the cache.
\* The font module that defines Fonts is not among the sources; it is taken
\* to hand the call to the FontCache, as the specification describes
\* typesetting "against the Font Cache".
Fonts_get(c, name, hid) == get(c, name, hid)

\* Mutant of RenderFont_new: the collector is not seeded with glyph 0.
RenderFont_new_unseeded(name) ==
  [name |-> name, glyph_collector |-> <<>>, font_ref |-> NoRef]

\* RenderFont::new.
RenderFont_new(name) ==
  [name |-> name, glyph_collector |-> <<0>>, font_ref |-> NoRef]

\* Mutant of find: no RenderFont is ever found.
find_nothing(fonts, name) == 0

\* Position of the RenderFont called name in the vector, 0 when there is none
\* (iter().find: the first one).
find(fonts, name) ==
  IF \E i \in 1..Len(fonts) : fonts[i].name = name
  THEN CHOOSE i \in 1..Len(fonts) :
         /\ fonts[i].name = name
         /\ \A j \in 1..(i - 1) : fonts[j].name # name
  ELSE 0

\* IndexSet::insert_full: the index of the value and the set, the value
\* appended when it is new.
insert_full(set, g) ==
  IF \E i \in 1..Len(set) : set[i] = g
  THEN [index |-> (CHOOSE i \in 1..Len(set) : set[i] = g) - 1, set |-> set]
  ELSE [index |-> Len(set), set |-> Append(set, g)]

\* The width glyph ids and local ids are given where all of them are gone
\* through: u16 narrowed to GlyphBits bits.
GlyphBits == 2

\* Mutant of GlyphIds: the collector holds ids of one bit more than the cast
\* keeps (an IndexSet<u32>).
GlyphIds_wider(bits) == 0..(2 ^ (bits + 1) - 1)

\* The values of a glyph id of bits bits (u16: 16 bits), which are the values
\* an IndexSet of such ids can hold.
GlyphIds(bits) == 0..(2 ^ bits - 1)

\* Font::typeset_collect, the loop over the shaped glyphs, for glyph ids and
\* a cast of bits bits: every glyph index is rewritten to its index in the
\* collector, cast to the width.
RECURSIVE typeset_collect_at(_, _, _, _)
typeset_collect_at(collector, shaped, out, bits) ==
  IF shaped = <<>> THEN [collector |-> collector, glyphs |-> out]
  ELSE LET r == insert_full(collector, Head(shaped))
       IN typeset_collect_at(r.set, Tail(shaped),
                             Append(out, r.index % (2 ^ bits)), bits)

\* Font::typeset_collect, the loop over the shaped glyphs: every glyph index
\* is rewritten to its index in the collector, cast to u16.
typeset_collect(collector, shaped, out) ==
  typeset_collect_at(collector, shaped, out, 16)

\* What Font::typeset can return for a font with these bytes: any glyph
\* sequence of the font (the text and the shaper decide which), or the error
\* of glyph_positions().
Seqs(S, n) == UNION {[1..k -> S] : k \in 0..n}
Shaped(bytes) == Seqs(0..(NumGlyphs(bytes) - 1), MaxLen)

\* Ascending order of a set of numbers.
RECURSIVE Sorted(_)
Sorted(S) ==
  IF S = {} THEN <<>>
  ELSE LET m == CHOOSE x \in S : \A y \in S : x <= y
       IN <<m>> \o Sorted(S \ {m})

\* Mutant of subsetted_glyphs: the glyph ids are passed in ascending order.
subsetted_glyphs_sorted(glyph_collector) ==
  Sorted({glyph_collector[i] : i \in 1..Len(glyph_collector)})

\* Font::subset_inner, the list passed to allsorts' subset.
subsetted_glyphs(glyph_collector) == glyph_collector

\* Mutant of subset_inner: an empty collector is subset like any other.
subset_inner_of_nothing(source, glyph_collector) ==
  LET list == subsetted_glyphs(glyph_collector)
  IN IF ~IsContainer(source.bytes)
     THEN [kind |-> "ParseError", blob |-> NoRef]
     ELSE IF \E i \in 1..Len(list) : list[i] >= NumGlyphs(source.bytes)
     THEN [kind |-> "SubsetError", blob |-> NoRef]
     ELSE [kind |-> "Some", blob |-> [glyphs |-> list, src |-> source]]

\* Font::subset_inner: None for an empty collector; otherwise the source is
\* read again and cut down to the listed glyphs, which fails when a listed
\* glyph is no glyph of the font.
subset_inner(source, glyph_collector) ==
  IF glyph_collector = <<>> THEN [kind |-> "None", blob |-> NoRef]
  ELSE LET list == subsetted_glyphs(glyph_collector)
       IN IF ~IsContainer(source.bytes)
          THEN [kind |-> "ParseError", blob |-> NoRef]
          ELSE IF \E i \in 1..Len(list) : list[i] >= NumGlyphs(source.bytes)
          THEN [kind |-> "SubsetError", blob |-> NoRef]
          ELSE [kind |-> "Some",
                blob |-> [glyphs |-> list, src |-> source]]

\* Mutant of complete_and_write: a font whose embedding fails is skipped
\* like a font without subset.
RECURSIVE complete_and_write_skips(_, _, _)
complete_and_write_skips(i, st, embed_fail) ==
  IF i > Len(st.fonts) THEN [st EXCEPT !.res = Res("Ok", "", NoFont)]
  ELSE
    LET rf == st.fonts[i]
        g == Fonts_get(st.cache, rf.name, st.hid)
        st1 == [st EXCEPT !.cache = g.cache, !.hid = g.hid]
        sub == subset_inner(g.res.font.src, rf.glyph_collector)
        st2 == [st1 EXCEPT !.handed =
                  Append(@, [name |-> rf.name,
                             glyphs |-> subsetted_glyphs(rf.glyph_collector)])]
    IN IF g.res.kind # "Ok" THEN [st1 EXCEPT !.res = g.res]
       ELSE IF sub.kind = "None"
       THEN complete_and_write_skips(i + 1, st1, embed_fail)
       ELSE IF sub.kind # "Some" THEN [st2 EXCEPT !.res = Err(sub.kind, "")]
       ELSE IF embed_fail = i
       THEN complete_and_write_skips(i + 1, st2, embed_fail)
       ELSE complete_and_write_skips(
              i + 1, [st2 EXCEPT !.fonts[i].font_ref = sub.blob], embed_fail)

\* RenderFonts::complete_and_write from the i-th RenderFont on. st carries the
\* cache, the next Font identity, the vector and the lists handed to the
\* subsetter so far; embed_fail is the index of the font whose add_external_font fails (0: none does).
RECURSIVE complete_and_write(_, _, _)
complete_and_write(i, st, embed_fail) ==
  IF i > Len(st.fonts) THEN [st EXCEPT !.res = Res("Ok", "", NoFont)]
  ELSE
    LET rf == st.fonts[i]
        g == Fonts_get(st.cache, rf.name, st.hid)
        st1 == [st EXCEPT !.cache = g.cache, !.hid = g.hid]
        sub == subset_inner(g.res.font.src, rf.glyph_collector)
        st2 == [st1 EXCEPT !.handed =
                  Append(@, [name |-> rf.name,
                             glyphs |-> subsetted_glyphs(rf.glyph_collector)])]
    IN IF g.res.kind # "Ok" THEN [st1 EXCEPT !.res = g.res]
       ELSE IF sub.kind = "None" THEN complete_and_write(i + 1, st1, embed_fail)
       ELSE IF sub.kind # "Some" THEN [st2 EXCEPT !.res = Err(sub.kind, "")]
       ELSE IF embed_fail = i THEN [st2 EXCEPT !.res = Err("PdfWrite", "")]
       ELSE complete_and_write(
              i + 1, [st2 EXCEPT !.fonts[i].font_ref = sub.blob], embed_fail)

\* Mutant of get_font_ref: the handle of the document's first font is
\* returned, whatever the name.
get_font_ref_of_first(fonts, name) ==
  IF fonts # <<>> THEN fonts[1].font_ref ELSE NoRef

\* RenderFonts::get_font_ref.
get_font_ref(fonts, name) ==
  IF find(fonts, name) # 0 THEN fonts[find(fonts, name)].font_ref ELSE NoRef

\* The original glyph ids of a shaped sequence that seen does not hold yet,
\* each once, in the order of their first occurrence, after seen.
RECURSIVE FirstSeen(_, _)
FirstSeen(seen, shaped) ==
  IF shaped = <<>> THEN seen
  ELSE FirstSeen(IF Head(shaped) \in {seen[i] : i \in 1..Len(seen)}
                 THEN seen ELSE seen \o <<Head(shaped)>>,
                 Tail(shaped))

\* ------------------------------------------------------ text emission, pure
\* The GlyphPosition allsorts computes for glyph g, in ems: glyph 0 and any
\* other base glyph sit on the pen position, glyph 1 is shifted horizontally
\* and glyph 2 vertically (a mark above its base, with no advance).
GlyphPosition(g, glyph_index) ==
  CASE g = 1 -> [glyph_index |-> glyph_index, h_advance |-> 6, v_advance |-> 0,
                 h_offset |-> -2, v_offset |-> 0]
    [] g = 2 -> [glyph_index |-> glyph_index, h_advance |-> 0, v_advance |-> 0,
                 h_offset |-> 0, v_offset |-> 3]
    [] OTHER -> [glyph_index |-> glyph_index, h_advance |-> 5, v_advance |-> 0,
                 h_offset |-> 0, v_offset |-> 0]

\* GlyphPosition::h_advance_rest and v_advance_rest of the layout crate, which
\* is not among the sources: the advance that remains after the offset (as
\* tests::render of font/allsorts.rs computes it by hand).
h_advance_rest(position) == position.h_advance - position.h_offset
v_advance_rest(position) == position.v_advance - position.v_offset

\* One call on the PdfLayerReference: set_fill_color(color), set_font(_, x),
\* set_text_cursor(x, y), set_text_scaling(x), write_codepoints([x]),
\* begin_text_section(), end_text_section().
LayerOp(op, color, x, y) == [op |-> op, color |-> color, x |-> x, y |-> y]

\* Mutant of write_positions: the cursor is moved by the offset before every
\* glyph, also by a zero offset.
RECURSIVE write_positions_always_moves(_, _, _, _)
write_positions_always_moves(positions, i, font_size, font_scaling) ==
  IF i > Len(positions) THEN <<>>
  ELSE LET position == positions[i]
       IN <<LayerOp("set_text_cursor", "",
                    position.h_offset * font_size * font_scaling,
                    position.v_offset * font_size),
            LayerOp("write_codepoints", "", position.glyph_index, 0),
            LayerOp("set_text_cursor", "",
                    h_advance_rest(position) * font_size * font_scaling,
                    v_advance_rest(position) * font_size)>>
          \o write_positions_always_moves(positions, i + 1,
                                          font_size, font_scaling)

\* RenderContext::text, its loop over text.positions from the i-th on: the
\* calls it makes on the layer.
RECURSIVE write_positions(_, _, _, _)
write_positions(positions, i, font_size, font_scaling) ==
  IF i > Len(positions) THEN <<>>
  ELSE LET position == positions[i]
           h_offset == position.h_offset
           v_offset == position.v_offset
       IN (IF h_offset # 0 \/ v_offset # 0
           THEN <<LayerOp("set_text_cursor", "",
                          h_offset * font_size * font_scaling,
                          v_offset * font_size)>>
           ELSE <<>>)
          \o <<LayerOp("write_codepoints", "", position.glyph_index, 0),
               LayerOp("set_text_cursor", "",
                       h_advance_rest(position) * font_size * font_scaling,
                       v_advance_rest(position) * font_size)>>
          \o write_positions(positions, i + 1, font_size, font_scaling)

\* Mutant of text_section: the fill colour is not set back after the run.
text_section_keeps_color(style, font_size, page_position, positions) ==
  <<LayerOp("begin_text_section", "", 0, 0)>>
  \o (IF style.color # NoColor /\ style.color # "black"
      THEN <<LayerOp("set_fill_color", style.color, 0, 0)>> ELSE <<>>)
  \o <<LayerOp("set_font", "", font_size, 0),
       LayerOp("set_text_cursor", "", page_position.x, page_position.y),
       LayerOp("set_text_scaling", "", 100 * style.scaling, 0)>>
  \o write_positions(positions, 1, font_size, style.scaling)
  \o <<LayerOp("set_text_scaling", "", 100, 0),
       LayerOp("end_text_section", "", 0, 0)>>

\* RenderContext::text from begin_text_section to end_text_section: the calls
\* it makes on the layer.
text_section(style, font_size, page_position, positions) ==
  <<LayerOp("begin_text_section", "", 0, 0)>>
  \o (IF style.color # NoColor /\ style.color # "black"
      THEN <<LayerOp("set_fill_color", style.color, 0, 0)>> ELSE <<>>)
  \o <<LayerOp("set_font", "", font_size, 0),
       LayerOp("set_text_cursor", "", page_position.x, page_position.y),
       LayerOp("set_text_scaling", "", 100 * style.scaling, 0)>>
  \o write_positions(positions, 1, font_size, style.scaling)
  \o <<LayerOp("set_text_scaling", "", 100, 0)>>
  \o (IF style.color # NoColor /\ style.color # "black"
      THEN <<LayerOp("set_fill_color", "black", 0, 0)>> ELSE <<>>)
  \o <<LayerOp("end_text_section", "", 0, 0)>>

\* The text state of the layer after the calls ops: set_fill_color and
\* set_text_scaling replace the fill colour and the horizontal scaling, which
\* outlive the text section; the other calls leave both alone.
RECURSIVE Layer_after(_, _)
Layer_after(layer, ops) ==
  IF ops = <<>> THEN layer
  ELSE LET op == Head(ops)
       IN Layer_after(
            CASE op.op = "set_fill_color" -> [layer EXCEPT !.fill_color = op.color]
              [] op.op = "set_text_scaling" -> [layer EXCEPT !.text_scaling = op.x]
              [] OTHER -> layer,
            Tail(ops))

\* --------------------------------------------------- the document, actions
\* RenderFonts::typeset (MeasureContext::typeset with a style that names the
\* font). The RenderFont is looked up, and pushed when missing, before the
\* font is fetched from the cache. positions: what Font::typeset returns for
\* the text, <<-1>> standing for its error; keep: whether the caller keeps
\* the returned TextPosition.
Typeset(name, positions, keep) ==
  /\ pc[Main] = Idle
  /\ LET at == find(render_fonts, name)
         fonts == IF at = 0 THEN Append(render_fonts, RenderFont_new(name))
                  ELSE render_fonts
         k == IF at = 0 THEN Len(fonts) ELSE at
         g == Fonts_get(cache, name, next_hid)
     IN /\ g.hid <= MaxParse + 1
        /\ cache' = g.cache
        /\ next_hid' = g.hid
        /\ IF g.res.kind # "Ok"
           THEN /\ positions = <<>> /\ ~keep
                /\ render_fonts' = fonts
                /\ last' = Event("typeset", name, "", g.res, g.parse, 0)
                /\ UNCHANGED <<held, issued, firsts, shaped_from>>
           ELSE IF positions = <<-1>>
           THEN /\ ~keep
                /\ render_fonts' = fonts
                /\ last' = Event("typeset", name, "",
                                 Err("PositionError", ""), g.parse, 0)
                /\ UNCHANGED <<held, issued, firsts, shaped_from>>
           ELSE LET c == typeset_collect(fonts[k].glyph_collector,
                                         positions, <<>>)
                IN /\ positions \in Shaped(g.res.font.src.bytes)
                   /\ render_fonts' =
                        [fonts EXCEPT ![k].glyph_collector = c.collector]
                   /\ held' = IF keep
                              THEN [name |-> name, glyphs |-> c.glyphs,
                                    positions |->
                                      [i \in 1..Len(positions) |->
                                         GlyphPosition(positions[i],
                                                       c.glyphs[i])]]
                              ELSE held
                   /\ issued' =
                        [issued EXCEPT ![name] = @ \cup
                           {<<positions[i], c.glyphs[i]>> :
                              i \in 1..Len(positions)}]
                   /\ firsts' = [firsts EXCEPT ![name] =
                                   FirstSeen(@, positions)]
                   /\ shaped_from' = [shaped_from EXCEPT ![name] =
                                   IF positions = <<>> THEN @
                                   ELSE @ \cup {g.res.font.src}]
                   /\ last' = Event("typeset", name, "",
                                    Res("Ok", "", NoFont), g.parse, 0)
  /\ UNCHANGED <<next_src, pc, page, locks>>

\* RenderContext::complete_fonts.
CompleteFonts(embed_fail) ==
  /\ pc[Main] = Idle
  /\ LET st == complete_and_write(
                 1, [cache |-> cache, hid |-> next_hid, fonts |-> render_fonts,
                     handed |-> <<>>,
                     res |-> Res("None", "", NoFont)], embed_fail)
     IN /\ st.hid <= MaxParse + 1
        /\ cache' = st.cache
        /\ next_hid' = st.hid
        /\ render_fonts' = st.fonts
        /\ last' = [Event("complete", "", "", st.res, st.hid # next_hid, 0)
                      EXCEPT !.handed = st.handed]
  /\ UNCHANGED <<next_src, pc, held, issued, firsts, shaped_from, locks, page>>

\* RenderContext::text with the kept TextPosition, at the content offset at,
\* with a style whose font is called name ("": the style has no font name or
\* no size). Nothing happens for an empty text or a style without font; else
\* check_page_break is run, the position converted, and the unwrap of
\* get_font_ref panics when the font has no embedding handle; otherwise the
\* glyph ids are written with that handle at the converted position, in a
\* text section of the current layer.
Text(style, at, position_is_baseline) ==
  /\ pc[Main] = Idle
  /\ held # NoText
  /\ LET cpb == check_page_break(page, at.y, Metrics.height)
         p == cpb.page
         content_position == page_content_offset(p, at)
         margined == Quad_offset(p.page_margin, content_position)
         page_position ==
           swap_y(p, IF position_is_baseline THEN margined
                     ELSE Offset_new(margined.x, margined.y + Metrics.ascent))
         name == style.name
         font_ref == get_font_ref(render_fonts, name)
         ops == text_section(style, Metrics.font_size, page_position,
                             held.positions)
         ev == [Event("text", name, "", Res("Ok", "", NoFont), FALSE, 0)
                  EXCEPT !.at = <<at>>, !.baseline = position_is_baseline,
                         !.style = style]
         placed == [ev EXCEPT !.height = Metrics.height,
                              !.new_page = cpb.new_page]
     IN IF held.glyphs = <<>> \/ name = ""
        THEN last' = ev /\ page' = page
        ELSE /\ p.pages <= MaxPages
             /\ IF font_ref = NoRef
                THEN /\ page' = p
                     /\ last' = [placed EXCEPT !.res = Err("Panic", "")]
                ELSE /\ page' = [p EXCEPT !.layer = Layer_after(@, ops)]
                     /\ last' = [placed EXCEPT
                                   !.run = [ref |-> font_ref,
                                            glyphs |-> held.glyphs],
                                   !.out = <<page_position>>,
                                   !.ops = ops]
  /\ UNCHANGED <<cache, next_src, next_hid, pc,
                 render_fonts, held, issued, firsts, shaped_from, locks>>

\* RenderContext::line_inner, the points it draws the polygon through.
line_inner(p, content_points) ==
  [i \in 1..Len(content_points) |-> swap_y(p, content_points[i])]

\* RenderContext::line. (The stroke only sets colour and thickness.)
Line(from, to) ==
  /\ pc[Main] = Idle
  /\ LET cpb == check_page_break(page, from.y, 0)
         p == cpb.page
         from1 == Quad_offset(p.page_margin, page_content_offset(p, from))
         to1 == Quad_offset(p.page_margin, page_content_offset(p, to))
     IN /\ p.pages <= MaxPages
        /\ page' = p
        /\ last' = [Event("line", "", "", Res("Ok", "", NoFont), FALSE, 0)
                      EXCEPT !.at = <<from, to>>,
                             !.height = 0,
                             !.new_page = cpb.new_page,
                             !.out = line_inner(p, <<from1, to1>>)]
  /\ UNCHANGED <<cache, next_src, next_hid, pc,
                 render_fonts, held, issued, firsts, shaped_from, locks>>

\* RenderContext::debug_frame of a context built with_debug_frame(true): the
\* frame is drawn through its four corners; check_page_break is not called.
DebugFrame(content_position, size) ==
  /\ pc[Main] = Idle
  /\ LET top_left == Quad_offset(page.page_margin,
                                 page_content_offset(page, content_position))
         bottom_right == Offset_new(top_left.x + size.width,
                                    top_left.y + size.height)
     IN last' = [Event("debug_frame", "", "", Res("Ok", "", NoFont), FALSE, 0)
                   EXCEPT !.at = <<content_position>>,
                          !.out = line_inner(page,
                            <<top_left,
                              Offset_new(bottom_right.x, top_left.y),
                              bottom_right,
                              Offset_new(top_left.x, bottom_right.y),
                              top_left>>)]
  /\ UNCHANGED <<cache, next_src, next_hid, pc,
                 render_fonts, held, issued, firsts, shaped_from, locks, page, handle>>

\* NewPageOptions::must_be_in_page: None, or a content offset and a height.
NoMust == [some |-> FALSE, offset |-> 0, height |-> 0]

\* RenderContext::new_page: with must_be_in_page the page is broken when the
\* content does not fit, and margin and size of the options are not looked
\* at; otherwise a page is started with the margin and the size of the
\* options.
NewPage(must_be_in_page, margin, size) ==
  /\ pc[Main] = Idle
  /\ LET cpb == check_page_break(page, must_be_in_page.offset,
                                 must_be_in_page.height)
         ev == [Event("new_page", "", "", Res("Ok", "", NoFont), FALSE, 0)
                  EXCEPT !.options =
                    <<[must_be_in_page |-> must_be_in_page,
                       margin |-> margin, size |-> size]>>]
     IN IF must_be_in_page.some
        THEN /\ cpb.page.pages <= MaxPages
             /\ page' = cpb.page
             /\ last' = [ev EXCEPT
                           !.at = <<Offset_new(0, must_be_in_page.offset)>>,
                           !.height = must_be_in_page.height,
                           !.new_page = cpb.new_page]
        ELSE /\ page.pages < MaxPages
             /\ page' = new_page_internal(page, margin, size)
             /\ last' = [ev EXCEPT !.new_page = TRUE]
  /\ UNCHANGED <<cache, next_src, next_hid, pc,
                 render_fonts, held, issued, firsts, shaped_from, locks>>

\* One document with one font name; the font is registered once, before or
\* between the document's calls.
Next ==
  \/ \E n \in DocNames, keep \in BOOLEAN,
        positions \in Shaped("ttfA") \cup {<<-1>>} : Typeset(n, positions, keep)
       /\ UNCHANGED caller_vars
  \/ \E embed_fail \in 0..Len(render_fonts) :
       CompleteFonts(embed_fail) /\ UNCHANGED caller_vars
  \/ \E n \in DocNames :
       Text(PlainStyle(n), LowPoint, TRUE) /\ UNCHANGED caller_vars
  \/ \E n \in DocNames, b \in Bytes : Add(Main, n, b)

Spec == Init /\ [][Next]_vars

\* A RenderContext used directly (as by tests::render_context): one font is
\* registered, typeset, finalized, and text, lines, frames and new pages are
\* placed in any order; the style of a text names a font of the document, a
\* font the document never typeset, or none.
FrameSize == [width |-> 100, height |-> 40]
Musts ==
  {NoMust} \cup {[some |-> TRUE, offset |-> y, height |-> h] :
                   y \in {650, 670, 671}, h \in {0, Metrics.height}}
NextPage ==
  \/ Add(Main, "f", "ttfA")
  \/ \E positions \in {<<>>, <<1>>} :
       Typeset("f", positions, TRUE) /\ UNCHANGED caller_vars
  \/ CompleteFonts(0) /\ UNCHANGED caller_vars
  \/ \E n \in Names \cup {""}, at \in Points, b \in BOOLEAN :
       Text(PlainStyle(n), at, b) /\ UNCHANGED caller_vars
  \/ \E from \in Points, to \in {[x |-> 110, y |-> 20]} :
       Line(from, to) /\ UNCHANGED caller_vars
  \/ \E at \in {[x |-> 10, y |-> 20]} :
       DebugFrame(at, FrameSize) /\ UNCHANGED caller_vars
  \/ \E must \in Musts, margin \in Margins \cup {NoQuad},
        size \in Sizes \cup {NoSize} :
       /\ must.some => (margin = NoQuad /\ size = NoSize)
       /\ NewPage(must, margin, size) /\ UNCHANGED caller_vars

SpecPage == Init /\ [][NextPage]_vars

\* One document typesetting with two font names, of which each may be
\* registered with a font, registered with bytes that are no font, or not
\* registered; typeset and complete_fonts are called in any order.
NextTwo ==
  \/ \E n \in Names, b \in {"ttfA", "junk"} : Add(Main, n, b)
  \/ \E n \in Names, positions \in {<<>>, <<1>>, <<-1>>} :
       Typeset(n, positions, FALSE) /\ UNCHANGED caller_vars
  \/ \E embed_fail \in 0..Len(render_fonts) :
       CompleteFonts(embed_fail) /\ UNCHANGED caller_vars

SpecTwo == Init /\ [][NextTwo]_vars

\* ------------------------------------------------------- Renderer::render
\* Mutant of render_next: the layout is rendered before the fonts are
\* finalized.
render_next_emits_first(at, ok) ==
  IF ~ok THEN "done"
  ELSE CASE at = "none" -> "measure"
         [] at = "measure" -> "lay_out"
         [] at = "lay_out" -> "render"
         [] at = "render" -> "complete"
         [] at = "complete" -> "save"
         [] OTHER -> "done"

\* Renderer::render, the order of its statements: the statement that follows
\* the one at `at` when that returned Ok; every `?` returns from render.
render_next(at, ok) ==
  IF ~ok THEN "done"
  ELSE CASE at = "none" -> "measure"
         [] at = "measure" -> "lay_out"
         [] at = "lay_out" -> "complete"
         [] at = "complete" -> "render"
         [] at = "render" -> "save"
         [] OTHER -> "done"

\* The Renderer after the statement at render.at returned res.
Returned(res) ==
  LET at == render_next(render.at, ~IsErr(res))
  IN [render EXCEPT !.at = at,
                    !.res = IF IsErr(res) THEN res.kind
                            ELSE IF at = "done" THEN "Ok" ELSE @,
                    !.pdf = at = "done" /\ ~IsErr(res),
                    !.finalized = @ \/ render.at = "complete"]

\* Renderer::render is called on a Renderer built over the registered fonts.
RenderCall ==
  /\ pc[Main] = Idle
  /\ render.at = "none"
  /\ render' = Returned(Res("Ok", "", NoFont))
  /\ last' = Event("render", "", "", Res("None", "", NoFont), FALSE, 0)
  /\ UNCHANGED <<cache, next_src, next_hid, pc,
                 render_fonts, held, issued, firsts, shaped_from, locks, page, handle>>

\* layout.measure and layout.lay_out, one call they make: a typeset through
\* the MeasureContext.
LayoutTypeset(name, positions, keep) ==
  /\ render.at \in {"measure", "lay_out"}
  /\ Typeset(name, positions, keep)
  /\ UNCHANGED caller_vars

\* layout.measure, layout.lay_out and layout.render return, with Ok or with
\* an error (of a typeset, or of the layout's own).
LayoutReturns(ok) ==
  /\ pc[Main] = Idle
  /\ render.at \in {"measure", "lay_out", "render"}
  /\ LET res == IF ok THEN Res("Ok", "", NoFont) ELSE Err("LayoutError", "")
     IN /\ render' = Returned(res)
        /\ last' = Event("layout_return", render.at, "", res, FALSE, 0)
  /\ UNCHANGED <<cache, next_src, next_hid, pc,
                 render_fonts, held, issued, firsts, shaped_from, locks, page, handle>>

\* self.context.complete_fonts()?
RenderCompleteFonts(embed_fail) ==
  /\ render.at = "complete"
  /\ CompleteFonts(embed_fail)
  /\ render' = Returned(last'.res)
  /\ UNCHANGED handle

\* layout.render, one call it makes: a text through the RenderContext; its
\* panic unwinds render.
LayoutText(name, at) ==
  /\ render.at = "render"
  /\ Text(PlainStyle(name), at, TRUE)
  /\ render' = IF last'.res.kind = "Panic"
               THEN [render EXCEPT !.at = "done", !.res = "Panic"]
               ELSE render
  /\ UNCHANGED handle

\* let pdf = self.context.save_to_bytes()?; Ok(pdf)
RenderSave(ok) ==
  /\ pc[Main] = Idle
  /\ render.at = "save"
  /\ LET res == IF ok THEN Res("Ok", "", NoFont) ELSE Err("PdfWrite", "")
     IN /\ render' = Returned(res)
        /\ last' = Event("save", "", "", res, FALSE, 0)
  /\ UNCHANGED <<cache, next_src, next_hid, pc,
                 render_fonts, held, issued, firsts, shaped_from, locks, page, handle>>

\* Fonts are registered, a Renderer is built over them and render is called
\* with a layout that typesets with the two font names and emits the text
\* it kept.
NextRender ==
  \/ \E n \in Names : render.at = "none" /\ Add(Main, n, "ttfA")
  \/ RenderCall
  \/ \E n \in Names, positions \in {<<>>, <<1>>} :
       LayoutTypeset(n, positions, TRUE)
  \/ \E ok \in BOOLEAN : LayoutReturns(ok)
  \/ \E embed_fail \in 0..Len(render_fonts) : RenderCompleteFonts(embed_fail)
  \/ \E n \in Names : LayoutText(n, LowPoint)
  \/ \E ok \in BOOLEAN : RenderSave(ok)

SpecRender == Init /\ [][NextRender]_vars

\* ------------------------------------------------- a kept font handle
\* Font::subset: the handle's own source is subset.
Font_subset(font, glyph_collector) == subset_inner(font.src, glyph_collector)

\* let font = cache.get(name)?: the caller keeps the Font the get returned.
Keep ==
  /\ pc[Main] = Idle
  /\ last.op = "get" /\ last.res.kind = "Ok"
  /\ handle' = last.res.font
  /\ last' = Event("keep", last.name, "", last.res, FALSE, 0)
  /\ UNCHANGED <<cache, next_src, next_hid, pc,
                 render_fonts, held, issued, firsts, shaped_from, locks, page, render>>

\* Mutant of typeset_inner: the error of the shaper is returned.
typeset_inner_shape_error(shaping) ==
  IF shaping.err THEN [res |-> Err("ShapingError", ""), positions |-> <<>>]
  ELSE IF ~shaping.positioned
  THEN [res |-> Err("PositionError", ""), positions |-> <<>>]
  ELSE [res |-> Res("Ok", "", NoFont), positions |-> shaping.shapes]

\* Font::typeset_inner: the shapes of Ok(shapes) and of Err((_, shapes)) are
\* used alike; the error of glyph_positions() is returned; otherwise there is
\* one GlyphPosition per shape, with the glyph index of the shape.
typeset_inner(shaping) ==
  LET shapes == shaping.shapes
  IN IF ~shaping.positioned
     THEN [res |-> Err("PositionError", ""), positions |-> <<>>]
     ELSE [res |-> Res("Ok", "", NoFont),
           positions |-> [i \in 1..Len(shapes) |-> shapes[i]]]

\* Font::typeset on the kept handle: the shaper works on the font the handle
\* parsed from its source, and returns glyphs of that font.
FontTypeset(shaping) ==
  /\ pc[Main] = Idle
  /\ handle # NoFont
  /\ shaping.shapes \in Shaped(handle.src.bytes)
  /\ LET t == typeset_inner(shaping)
     IN last' = [Event("font_typeset", "", "", t.res, FALSE, 0)
                   EXCEPT !.run = [ref |-> NoRef, glyphs |-> t.positions],
                          !.shaping = shaping]
  /\ UNCHANGED <<cache, next_src, next_hid, pc,
                 render_fonts, held, issued, firsts, shaped_from, locks, page, render, handle>>

\* Font::subset on the kept handle.
FontSubset(glyph_collector) ==
  /\ pc[Main] = Idle
  /\ handle # NoFont
  /\ LET sub == Font_subset(handle, glyph_collector)
     IN last' = [Event("font_subset", "", "", Res(sub.kind, "", handle),
                       FALSE, 0)
                   EXCEPT !.run = [ref |-> sub.blob,
                                   glyphs |-> glyph_collector]]
  /\ UNCHANGED <<cache, next_src, next_hid, pc,
                 render_fonts, held, issued, firsts, shaped_from, locks, page, render, handle>>

\* A caller registers, replaces and removes the sources of one name, gets
\* the font, keeps it, and shapes and subsets with the handle it keeps.
NextHandle ==
  \/ \E b \in {"ttfA", "ttfB"} : Add(Main, "f", b)
  \/ \E b \in {"ttfA", "ttfB"} : Replace(Main, "f", b)
  \/ Remove(Main, "f")
  \/ GetRead(Main, "f")
  \/ GetWrite(Main)
  \/ Keep
  \/ \E err \in BOOLEAN, shapes \in {<<>>, <<1>>, <<1, 2>>},
        positioned \in BOOLEAN :
       FontTypeset([err |-> err, shapes |-> shapes,
                    positioned |-> positioned])
  \/ \E glyph_collector \in {<<>>, <<0>>, <<0, 2>>} :
       FontSubset(glyph_collector)

SpecHandle == Init /\ [][NextHandle]_vars

\* Two fonts are registered; a document typesets with the first only,
\* finalizes and emits text with styles naming either; a caller gets the
\* second from the cache and subsets it with collectors of its own.
NextUnused ==
  \/ \E n \in Names : Add(Main, n, "ttfA")
  \/ \E positions \in {<<>>, <<1>>} :
       Typeset("f", positions, TRUE) /\ UNCHANGED caller_vars
  \/ CompleteFonts(0) /\ UNCHANGED caller_vars
  \/ \E n \in Names :
       Text(PlainStyle(n), LowPoint, TRUE) /\ UNCHANGED caller_vars
  \/ GetRead(Main, "g")
  \/ GetWrite(Main)
  \/ Keep
  \/ \E glyph_collector \in {<<>>, <<0>>} : FontSubset(glyph_collector)

SpecUnused == Init /\ [][NextUnused]_vars

\* A RenderContext on which only pages are broken and started: new_page with
\* every combination of options, a must_be_in_page content taller than any
\* content window among them, and lines.
TallHeight == [height |-> 1000]
BreakMusts ==
  {NoMust} \cup {[some |-> TRUE, offset |-> y, height |-> h] :
                   y \in {0, 671}, h \in {Metrics.height, TallHeight.height}}
NextBreak ==
  \/ \E must \in BreakMusts, margin \in Margins \cup {NoQuad},
        size \in Sizes \cup {NoSize} :
       NewPage(must, margin, size) /\ UNCHANGED caller_vars
  \/ \E from \in {[x |-> 10, y |-> y] : y \in {20, 680}},
        to \in {[x |-> 110, y |-> 20]} :
       Line(from, to) /\ UNCHANGED caller_vars

SpecBreak == Init /\ [][NextBreak]_vars

\* Font::typeset_collect on the collector of one RenderFont, with glyph ids
\* of GlyphBits bits, so that texts can use every glyph id there is: a text
\* of one glyph, or of the same glyph twice.
TypesetCollect(positions) ==
  /\ pc[Main] = Idle
  /\ LET fonts == IF render_fonts = <<>> THEN <<RenderFont_new("f")>>
                  ELSE render_fonts
         c == typeset_collect_at(fonts[1].glyph_collector, positions, <<>>,
                                 GlyphBits)
     IN /\ render_fonts' = [fonts EXCEPT ![1].glyph_collector = c.collector]
        /\ issued' = [issued EXCEPT !["f"] = @ \cup
                        {<<positions[i], c.glyphs[i]>> :
                           i \in 1..Len(positions)}]
        /\ last' = [Event("typeset_collect", "f", "", Res("Ok", "", NoFont),
                          FALSE, 0)
                      EXCEPT !.run = [ref |-> NoRef, glyphs |-> c.glyphs]]
  /\ UNCHANGED <<cache, next_src, next_hid, pc, held, firsts, shaped_from,
                 locks, page, render, handle>>

NextNarrow ==
  \E g \in GlyphIds(GlyphBits) :
    \E positions \in {<<g>>, <<g, g>>} : TypesetCollect(positions)

SpecNarrow == Init /\ [][NextNarrow]_vars

\* One document on a cache that its owner keeps changing: the font of the
\* document is added, replaced and removed between the document's calls.
SwapBytes == {"ttfA", "ttfB"}
NextSwap ==
  \/ \E b \in SwapBytes : Add(Main, "f", b)
  \/ \E b \in SwapBytes : Replace(Main, "f", b)
  \/ Remove(Main, "f")
  \/ \E positions \in {<<>>, <<1>>, <<2>>} :
       Typeset("f", positions, FALSE) /\ UNCHANGED caller_vars
  \/ CompleteFonts(0) /\ UNCHANGED caller_vars

SpecSwap == Init /\ [][NextSwap]_vars

\* One document whose texts are placed in styles with and without a colour
\* and a horizontal scaling, with glyphs that carry offsets and glyphs that
\* carry none.
InkPoints == {LowPoint, [x |-> 10, y |-> 20]}
NextInk ==
  \/ Add(Main, "f", "ttfA")
  \/ \E positions \in Shaped("ttfA") :
       Typeset("f", positions, TRUE) /\ UNCHANGED caller_vars
  \/ CompleteFonts(0) /\ UNCHANGED caller_vars
  \/ \E style \in Styles({"f"}), at \in InkPoints :
       Text(style, at, TRUE) /\ UNCHANGED caller_vars

SpecInk == Init /\ [][NextInk]_vars

\* ------------------------------------------------- claims on the local ids
\* C30: the cast of the insertion index to the width of the glyph ids loses
\* nothing: a collector of distinct glyph ids has no more entries than the
\* width has values, so every local id is the index of its glyph in the
\* collector, and two glyph ids never get the same local id.
C30_CastKeepsTheIndex ==
  \A k \in 1..Len(render_fonts) :
    LET glyph_collector == render_fonts[k].glyph_collector
        name == render_fonts[k].name
    IN /\ Len(glyph_collector) <= 2 ^ (IF last.op = "typeset_collect"
                                       THEN GlyphBits ELSE 16)
       /\ \A p \in issued[name] :
            /\ p[2] + 1 <= Len(glyph_collector)
            /\ glyph_collector[p[2] + 1] = p[1]
       /\ \A p, q \in issued[name] : p[1] # q[1] => p[2] # q[2]

\* C30, witness: the collector holds every glyph id there is, and the one
\* collected last has got the greatest local id of the width.
C30_Witness ==
  /\ last.op = "typeset_collect"
  /\ Len(render_fonts[1].glyph_collector) = 2 ^ GlyphBits
  /\ last.run.glyphs = <<2 ^ GlyphBits - 1>>

\* ----------------------------------------------- claims on the cache lock
\* C29: no FontCache call blocks for ever: whatever get, add, replace and
\* remove calls the threads make on one cache, each of them returns.
C29_EveryCallReturns ==
  \A t \in Threads : (locks[t].op # "none") ~> (locks[t].op = "none")

\* C29, witness: a get has left its read block and waits for the write lock
\* while another thread holds the read lock.
C29_Witness ==
  \E t, u \in Threads :
    /\ locks[t].op = "get" /\ locks[t].wants = "write"
    /\ locks[t].holds = "none"
    /\ locks[u].holds = "read"

\* ------------------------------------------------ claims on the document

\* C1: for every font name, each original glyph id has exactly one local id
\* and distinct glyph ids have distinct local ids; the local id of a glyph is
\* its rank in first-seen order, the seeded glyph 0 being the 0-th; and
\* glyph 0 has local id 0.
C1_LocalIdsFirstSeen ==
  \A n \in Names :
    /\ \A p \in issued[n], q \in issued[n] : (p[1] = q[1]) <=> (p[2] = q[2])
    /\ \A p \in issued[n] :
         /\ p[2] < Len(firsts[n])
         /\ firsts[n][p[2] + 1] = p[1]
         /\ p[1] = 0 <=> p[2] = 0

\* Glyph 2 was seen before glyph 1, and glyph 0 after both.
C1_Witness ==
  \E n \in Names : {<<2, 1>>, <<1, 2>>, <<0, 0>>} \subseteq issued[n]

\* C2: every glyph-id list complete_and_write hands to the subsetter is the
\* font's collector in insertion order: position i of the list holds the
\* original glyph of every local id i typeset has returned for the font.
C2_SubsetListIsCollector ==
  last.op = "complete" =>
    \A i \in 1..Len(last.handed) :
      /\ find(render_fonts, last.handed[i].name) # 0
      /\ last.handed[i].glyphs =
           render_fonts[find(render_fonts,
                             last.handed[i].name)].glyph_collector
      /\ \A p \in issued[last.handed[i].name] :
           /\ p[2] < Len(last.handed[i].glyphs)
           /\ last.handed[i].glyphs[p[2] + 1] = p[1]

\* A finalization that handed over a list in which glyph 2 precedes glyph 1.
C2_Witness ==
  /\ last.op = "complete" /\ last.res.kind = "Ok"
  /\ \E i \in 1..Len(last.handed) :
       /\ last.handed[i].glyphs = <<0, 2, 1>>
       /\ get_font_ref(render_fonts, last.handed[i].name).glyphs
            = <<0, 2, 1>>

\* C3 (as claimed): every glyph id text() writes is smaller than the number
\* of glyphs the font's embedded subset was built from.
C3_WrittenIdsInSubset ==
  \A i \in 1..Len(last.run.glyphs) :
    last.run.glyphs[i] < Len(last.run.ref.glyphs)

\* C4 (as claimed): once a RenderFont has its embedding handle, no step
\* changes its glyph collector.
C4_CollectorFrozen ==
  [][\A k \in 1..Len(render_fonts) :
       render_fonts[k].font_ref # NoRef
         => render_fonts'[k].glyph_collector
              = render_fonts[k].glyph_collector]_vars

\* No RenderFont of the document that is called name has an embedding handle
\* (none is called so, or complete_fonts has not given it one).
Unfinalized(name) ==
  \A k \in 1..Len(render_fonts) :
    render_fonts[k].name = name => render_fonts[k].font_ref = NoRef

\* C11 (as claimed): a text call whose style names a font that has no
\* embedding handle always fails; it never returns normally.
C11_TextUnfinalizedFails ==
  (last.op = "text" /\ last.name # "" /\ Unfinalized(last.name))
    => last.res.kind = "Panic"

\* C11 (amended): a text call with a non-empty text and a style naming a font
\* that has no embedding handle panics, having written nothing; no text call
\* writes a glyph run without an embedding handle; a text call with an empty
\* text, or with a style that names no font, returns normally and writes
\* nothing, whether the font is finalized or not.
C11_NonEmptyTextUnfinalizedPanics ==
  last.op = "text" =>
    /\ (last.name # "" /\ held.glyphs # <<>> /\ Unfinalized(last.name))
         => (last.res.kind = "Panic" /\ last.run = NoRun /\ last.out = <<>>)
    /\ last.run # NoRun
         => (last.run.ref # NoRef /\ ~Unfinalized(last.name))
    /\ (last.name = "" \/ held.glyphs = <<>>)
         => (last.res.kind = "Ok" /\ last.run = NoRun /\ last.out = <<>>)

\* A text call naming a font the document never typeset, after the font the
\* text was typeset with has been finalized: it panics.
C11_Witness ==
  /\ last.op = "text" /\ last.res.kind = "Panic"
  /\ find(render_fonts, last.name) = 0
  /\ held.glyphs # <<>>
  /\ get_font_ref(render_fonts, held.name) # NoRef

\* C12: in every run of Renderer::render, every typeset call comes before
\* complete_fonts and every text call after it; complete_fonts is called
\* once, after the lay-out phase; no RenderFont has an embedding handle
\* before complete_fonts is called; the document is saved only after
\* layout.render returned Ok, and bytes are returned only by a successful
\* save.
C12_FinalizeBetweenTypesetAndEmit ==
  [][/\ last'.op = "typeset" => ~render'.finalized
     /\ last'.op = "text" => render.finalized
     /\ last'.op = "complete"
          => (render.at = "complete" /\ ~render.finalized
              /\ last.op = "layout_return" /\ last.name = "lay_out"
              /\ last.res.kind = "Ok")
     /\ ~render'.finalized
          => \A k \in 1..Len(render_fonts') :
               render_fonts'[k].font_ref = NoRef
     /\ last'.op = "save"
          => (render.at = "save" /\ render.finalized
              /\ last.op = "layout_return" /\ last.name = "render"
              /\ last.res.kind = "Ok")
     /\ render'.pdf => (last'.op = "save" /\ last'.res.kind = "Ok")]_vars

\* render returned the bytes of a document in which both fonts, typeset with
\* in the measure and lay-out phases, are embedded.
C12_Witness ==
  /\ render.at = "done" /\ render.pdf /\ render.res = "Ok"
  /\ Len(render_fonts) = 2
  /\ \A k \in 1..2 : render_fonts[k].font_ref.glyphs = <<0, 1>>

C18_OneRenderFontPerName ==
  [][/\ \A i \in 1..Len(render_fonts'), j \in 1..Len(render_fonts') :
          render_fonts'[i].name = render_fonts'[j].name => i = j
     /\ \A k \in 1..Len(render_fonts') :
          get_font_ref(render_fonts', render_fonts'[k].name)
            = render_fonts'[k].font_ref
     /\ last'.op = "complete"
          => [k \in 1..Len(render_fonts') |-> render_fonts'[k].name]
               = [k \in 1..Len(render_fonts) |-> render_fonts[k].name]
     /\ last'.op = "typeset"
          => [k \in 1..Len(render_fonts') |-> render_fonts'[k].name]
               = IF \E k \in 1..Len(render_fonts) :
                       render_fonts[k].name = last'.name
                 THEN [k \in 1..Len(render_fonts) |-> render_fonts[k].name]
                 ELSE Append([k \in 1..Len(render_fonts)
                                |-> render_fonts[k].name], last'.name)]_vars

\* The first of two finalized fonts was typeset with again: there are still
\* two RenderFonts.
C18_Witness ==
  /\ last.op = "typeset" /\ last.res.kind = "Ok"
  /\ Len(render_fonts) = 2
  /\ last.name = render_fonts[1].name
  /\ render_fonts[1].glyph_collector = <<0, 1>>
  /\ \A k \in 1..2 : render_fonts[k].font_ref # NoRef

\* C19: an error of the shaper is never an error of typeset: whether it
\* returns its glyph sequence with or without an error, typeset goes on with
\* that sequence and, when the glyphs can be positioned, returns Ok with one
\* position per glyph of the sequence, in its order; it fails only with the
\* error of the positioning.
C19_PartialShapingIsNoError ==
  last.op = "font_typeset" =>
    /\ last.res.kind \in {"Ok", "PositionError"}
    /\ last.res.kind = "Ok" <=> last.shaping.positioned
    /\ last.res.kind = "Ok" => last.run.glyphs = last.shaping.shapes

\* The shaper failed after two glyphs, and typeset returned Ok with the
\* positions of the two.
C19_Witness ==
  /\ last.op = "font_typeset" /\ last.shaping.err
  /\ last.shaping.shapes = <<1, 2>>
  /\ last.res.kind = "Ok" /\ last.run.glyphs = <<1, 2>>

C23_FailedTypesetLeavesTable ==
  [][(last'.op = "typeset" /\ IsErr(last'.res)) =>
       render_fonts' = render_fonts]_vars

\* C24: when complete_fonts gives a RenderFont its embedding handle, the bytes
\* it subsets are the bytes of every source against which a typeset call that
\* put glyph ids into its collector was shaped, whatever add, replace and
\* remove did to the cache in between.
C24_SubsetOfTheShapedBytes ==
  [][last'.op = "complete" =>
       \A k \in 1..Len(render_fonts') :
         LET font == render_fonts'[k]
         IN font.font_ref # NoRef =>
              \A source \in shaped_from[font.name] :
                source.bytes = font.font_ref.src.bytes]_vars

\* The fill colour the layer has when the i-th of the calls ops is made, on a
\* layer that had the text state layer before the first.
FillAt(layer, ops, i) == Layer_after(layer, SubSeq(ops, 1, i - 1)).fill_color

\* C21: text sets the fill colour only for a run whose style has a colour
\* other than the default, black, and sets it back after the run: when a text
\* call has written its run, fill colour and horizontal scaling of the layer
\* are at their defaults again, and a run whose style has no colour is
\* written in the default colour whatever was placed before it.
C21_ColorOnlyInsideTheRun ==
  [][(last'.op = "text" /\ last'.run # NoRun) =>
       LET ops == last'.ops
           before == IF last'.new_page THEN NewLayer ELSE page.layer
           writes == {i \in 1..Len(ops) : ops[i].op = "write_codepoints"}
           colored == last'.style.color \notin {NoColor, "black"}
       IN /\ page'.layer = NewLayer
          /\ page'.layer = Layer_after(before, ops)
          /\ colored <=> (\E i \in 1..Len(ops) : ops[i].op = "set_fill_color")
          /\ writes # {}
          /\ \A i \in writes :
               FillAt(before, ops, i) =
                 IF colored THEN last'.style.color ELSE "black"]_vars

\* C21, witness: a run has been written in red, at twice the width.
C21_Witness ==
  /\ last.op = "text" /\ last.run # NoRun
  /\ last.style.color = "red" /\ last.style.scaling = 2
  /\ \E i \in 1..Len(last.ops) :
       last.ops[i].op = "set_fill_color" /\ last.ops[i].color = "red"

\* The place in ops of the k-th write_codepoints, and of the first call that
\* belongs to the k-th glyph: the one after set_text_scaling for the first
\* glyph, the one after the advance of the glyph before for the others.
WriteAt(ops, k) ==
  CHOOSE i \in 1..Len(ops) :
    /\ ops[i].op = "write_codepoints"
    /\ Cardinality({j \in 1..i : ops[j].op = "write_codepoints"}) = k
GlyphStart(ops, k) ==
  IF k = 1
  THEN 1 + CHOOSE i \in 1..Len(ops) :
             /\ ops[i].op = "set_text_scaling"
             /\ \A j \in 1..(i - 1) : ops[j].op # "set_text_scaling"
  ELSE WriteAt(ops, k - 1) + 2
RECURSIVE SumX(_)
SumX(ops) == IF ops = <<>> THEN 0 ELSE Head(ops).x + SumX(Tail(ops))
RECURSIVE SumY(_)
SumY(ops) == IF ops = <<>> THEN 0 ELSE Head(ops).y + SumY(Tail(ops))

\* C22: in a written run every glyph is written once, in order; the calls of
\* a glyph are one cursor move after it when both its offsets are zero, and
\* one before and one after it otherwise; the moves of a glyph add up to its
\* advance times the font size (and the horizontal scaling).
C22_CursorMovesPerGlyph ==
  [][(last'.op = "text" /\ last'.run # NoRun) =>
       LET ops == last'.ops
           positions == held.positions
           n == Len(positions)
           font_size == Metrics.font_size
       IN /\ Cardinality({i \in 1..Len(ops) :
                            ops[i].op = "write_codepoints"}) = n
          /\ \A k \in 1..n :
               LET w == WriteAt(ops, k)
                   lo == GlyphStart(ops, k)
                   moves == SubSeq(ops, lo, w - 1) \o <<ops[w + 1]>>
                   shifted == positions[k].h_offset # 0
                                \/ positions[k].v_offset # 0
               IN /\ ops[w].x = positions[k].glyph_index
                  /\ \A i \in 1..Len(moves) :
                       moves[i].op = "set_text_cursor"
                  /\ Len(moves) = IF shifted THEN 2 ELSE 1
                  /\ SumX(moves) = positions[k].h_advance * font_size
                                     * last'.style.scaling
                  /\ SumY(moves) = positions[k].v_advance * font_size
          /\ ops[WriteAt(ops, n) + 2].op = "set_text_scaling"]_vars

\* C22, witness: a run of a glyph without offset and a glyph with one has
\* been written at twice the width.
C22_Witness ==
  /\ last.op = "text" /\ last.run # NoRun /\ last.style.scaling = 2
  /\ Len(held.positions) = 2
  /\ held.positions[1].h_offset = 0 /\ held.positions[1].v_offset = 0
  /\ held.positions[2].v_offset # 0
  /\ Len(last.ops) = 11

\* ------------------------------------------------- claims on pagination

\* C13: a call of check_page_break(offset, height) starts a new page if and
\* only if the window end is established and offset + height is strictly
\* greater than its y; it then adds exactly one page, and none otherwise.
C13_BreakIffBeyondEnd ==
  [][last'.height >= 0
       => /\ last'.new_page
               <=> (/\ page.page_end.some
                    /\ last'.at[1].y + last'.height > page.page_end.y)
          /\ page'.pages = page.pages + (IF last'.new_page THEN 1 ELSE 0)]_vars

\* On the first page, whose window ends at 700, a placement at 670 of
\* height 30 did not break the page.
C13_Witness ==
  /\ last.height = 30 /\ last.at[1].y = 670 /\ ~last.new_page
  /\ page.pages = 1 /\ page.page_end.y = 700

\* C14 (as claimed): on every page, also the first, no content window exists
\* before the first placement on the page: the context just constructed and
\* the context just after a new_page have none.
C14_WindowLazyOnEveryPage ==
  (last.op = "new" \/ (last.op = "new_page" /\ last.height = -1))
    => (~page.page_start.some /\ ~page.page_end.some)

\* C14 (amended): the first page has its window at content offset 0 from
\* construction on. A new page started by new_page has no window; a call of
\* check_page_break (by line, text or new_page with must_be_in_page) that
\* finds no window, or that breaks the page, establishes the window at the
\* offset it was given, one content area long; every other step, debug_frame
\* too, leaves the window as it is; an established window stays until the
\* next new page.
C14_WindowLazyAfterFirstPage ==
  [][/\ page.pages = 1 => page.page_start = SomeOffset(Offset_new(0, 0))
     /\ page'.pages = 1 => page'.page_start = SomeOffset(Offset_new(0, 0))
     /\ (page'.pages # page.pages \/ ~page.page_start.some)
          => IF last'.height >= 0
             THEN /\ page'.page_start
                       = SomeOffset(Offset_new(0, last'.at[1].y))
                  /\ page'.page_end
                       = SomeOffset(Offset_new(
                           page'.page_size.width
                             - Quad_width(page'.page_margin),
                           last'.at[1].y + page'.page_size.height
                             - Quad_height(page'.page_margin)))
             ELSE ~page'.page_start.some /\ ~page'.page_end.some
     /\ (page'.pages = page.pages /\ page.page_start.some)
          => (page'.page_start = page.page_start
              /\ page'.page_end = page.page_end)]_vars

\* On the second page, started by new_page, a line from content offset 650
\* established the window there without breaking the page.
C14_Witness ==
  /\ last.op = "line" /\ ~last.new_page /\ last.at[1].y = 650
  /\ page.pages = 2 /\ page.page_start = SomeOffset(Offset_new(0, 650))

\* The three steps of the conversion on page p: the window start (nothing
\* when no window is established) is subtracted, the left and top margin
\* added, and y flipped against the page height.
ToOutput(p, o) ==
  LET start == IF p.page_start.some THEN p.page_start ELSE NoOffset
  IN Offset_new(p.page_margin.left + o.x - start.x,
                p.page_size.height - (p.page_margin.top + o.y - start.y))

\* The content offset of an output position on page p.
ToContent(p, q) ==
  LET start == IF p.page_start.some THEN p.page_start ELSE NoOffset
  IN Offset_new(q.x - p.page_margin.left + start.x,
                p.page_size.height - q.y - p.page_margin.top + start.y)

\* C15: line converts both its points, debug_frame the four corners of its
\* frame, and text its baseline (the given position, moved down by the
\* ascent when it is not the baseline) by the three steps, with the window
\* of the page the placement ends up on; and the output positions convert
\* back to the content offsets.
C15_SameThreeSteps ==
  /\ last.op = "line"
       => last.out = <<ToOutput(page, last.at[1]), ToOutput(page, last.at[2])>>
  /\ last.op = "debug_frame"
       => LET tl == last.at[1]
              br == Offset_new(tl.x + FrameSize.width,
                               tl.y + FrameSize.height)
          IN last.out = <<ToOutput(page, tl),
                          ToOutput(page, Offset_new(br.x, tl.y)),
                          ToOutput(page, br),
                          ToOutput(page, Offset_new(tl.x, br.y)),
                          ToOutput(page, tl)>>
  /\ (last.op = "text" /\ last.out # <<>>)
       => last.out =
            <<ToOutput(page,
                       IF last.baseline THEN last.at[1]
                       ELSE Offset_new(last.at[1].x,
                                       last.at[1].y + Metrics.ascent))>>
  /\ last.op \in {"line", "debug_frame"}
       => \A i \in 1..Len(last.out) :
            ToOutput(page, ToContent(page, last.out[i])) = last.out[i]
  /\ last.op = "line"
       => \A i \in 1..2 : ToContent(page, last.out[i]) = last.at[i]

\* Content (10, 20) on a 210 x 297 page with zero margin and the window
\* start at 0 was drawn at (10, 277).
C15_Witness ==
  /\ last.op = "line" /\ last.at[1] = [x |-> 10, y |-> 20]
  /\ page.page_size = [width |-> 210, height |-> 297]
  /\ Quad_width(page.page_margin) = 0 /\ Quad_height(page.page_margin) = 0
  /\ page.page_start = SomeOffset(Offset_new(0, 0))
  /\ last.out[1] = [x |-> 10, y |-> 277]

\* The height of the content window of the geometry p.
WindowHeight(p) == p.page_size.height - Quad_height(p.page_margin)

\* C25: page_start is set exactly when page_end is set, and then the window
\* starts at x = 0 and is as wide and as high as the current page size less
\* the current margin.
C25_WindowMatchesGeometry ==
  /\ page.page_start.some <=> page.page_end.some
  /\ page.page_start.some =>
       /\ page.page_start.x = 0
       /\ page.page_end.x - page.page_start.x =
            page.page_size.width - Quad_width(page.page_margin)
       /\ page.page_end.y - page.page_start.y = WindowHeight(page)

\* C25, witness: after a new page with another size and another margin a
\* window has been established down the flow.
C25_Witness ==
  /\ page.page_start.some /\ page.page_start.y > 0
  /\ page.page_size # FirstSize /\ page.page_margin # FirstMargin

\* C26: a call that runs check_page_break adds at most one page, also for a
\* content higher than the content window, and leaves a content window
\* established; when it breaks the page, the window starts at the content
\* offset it was called with.
C26_OneBreakAndAWindow ==
  [][last'.height >= 0 =>
       /\ page'.pages \in {page.pages, page.pages + 1}
       /\ last'.new_page <=> page'.pages = page.pages + 1
       /\ page'.page_start.some /\ page'.page_end.some
       /\ last'.new_page => page'.page_start.y = last'.at[1].y]_vars

\* C26, witness: a content higher than the window has broken the page.
C26_Witness ==
  /\ last.height > WindowHeight(page)
  /\ last.new_page
  /\ page.page_start.some

\* C27: when check_page_break is called with a height that is at most the
\* height of the content window and with an offset that is not above the
\* start of the current window, the placement lies inside the window on
\* return.
C27_PlacementInsideWindow ==
  [][(/\ last'.height >= 0
      /\ last'.height <= WindowHeight(page)
      /\ page.page_start.some => last'.at[1].y >= page.page_start.y) =>
       /\ page'.page_start.some /\ page'.page_end.some
       /\ page'.page_start.y <= last'.at[1].y
       /\ last'.at[1].y + last'.height <= page'.page_end.y]_vars

\* C27, witness: a content that fits a window but not the rest of the
\* current one has been placed at the start of the window of a new page.
C27_Witness ==
  /\ last.op = "new_page" /\ last.height = Metrics.height
  /\ last.new_page
  /\ page.page_start.y = last.at[1].y
  /\ last.at[1].y + last.height <= page.page_end.y

\* C28: new_page without must_be_in_page adds one page, takes over the margin
\* and the size of the options (keeping the ones it has where the options
\* have none), leaves no content window and returns true; with
\* must_be_in_page it returns true exactly when a page was added and changes
\* neither margin nor size, whatever the options carry. No call removes a
\* page, and the current page is the one added last.
C28_NewPageOptions ==
  [][/\ page'.pages >= page.pages
     /\ page'.current = page'.pages
     /\ last'.op = "new_page" =>
          LET options == last'.options[1]
          IN IF ~options.must_be_in_page.some
             THEN /\ page'.pages = page.pages + 1
                  /\ page'.page_margin = IF options.margin # NoQuad
                                         THEN options.margin
                                         ELSE page.page_margin
                  /\ page'.page_size = IF options.size # NoSize
                                       THEN options.size ELSE page.page_size
                  /\ ~page'.page_start.some /\ ~page'.page_end.some
                  /\ last'.new_page
             ELSE /\ page'.pages \in {page.pages, page.pages + 1}
                  /\ last'.new_page <=> page'.pages = page.pages + 1
                  /\ page'.page_margin = page.page_margin
                  /\ page'.page_size = page.page_size]_vars

\* C28, witness: a new_page with must_be_in_page whose options carry another
\* margin and another size has broken the page.
C28_Witness ==
  /\ last.op = "new_page" /\ last.new_page
  /\ last.options[1].must_be_in_page.some
  /\ last.options[1].margin \notin {NoQuad, page.page_margin}
  /\ last.options[1].size \notin {NoSize, page.page_size}

\* ------------------------------------------------- claims on the FontCache

\* C17: a kept handle and the source it was parsed from are changed by no
\* call on the cache, replace and remove of its name included; shaping with
\* it yields glyphs of the font in its own bytes, and subsetting with it
\* cuts its own source, whatever the cache holds by then; the Font a get
\* returns and the one it stores hold the very source allocation of the
\* entry (the Arc is cloned, no copy of the bytes is allocated).
C17_HandleKeepsItsSource ==
  [][/\ (handle # NoFont /\ last'.op # "keep") => handle' = handle
     /\ last'.op = "keep"
          => (handle' = last.res.font
              /\ handle'.src.bytes \in Bytes /\ handle'.src.id > 0)
     /\ last'.op = "font_typeset"
          => \A i \in 1..Len(last'.run.glyphs) :
               last'.run.glyphs[i] < NumGlyphs(handle.src.bytes)
     /\ last'.op = "font_subset"
          => /\ last'.res.kind = "Some" => last'.run.ref.src = handle.src
             /\ last'.res.kind = "Some"
                  <=> (/\ last'.run.glyphs # <<>>
                       /\ \A i \in 1..Len(last'.run.glyphs) :
                            last'.run.glyphs[i] < NumGlyphs(handle.src.bytes))
     /\ (last'.op = "get" /\ last'.res.kind = "Ok")
          => /\ last'.res.font.src = cache'[last'.name].source
             /\ cache'[last'.name].parsed.src = cache'[last'.name].source
             /\ next_src' = next_src]_vars

\* A handle parsed from the first source, a font of three glyphs, subset
\* glyph 2 after the name was replaced by a font of two glyphs.
C17_Witness ==
  /\ last.op = "font_subset" /\ last.res.kind = "Some"
  /\ last.run.glyphs = <<0, 2>>
  /\ handle.src = [bytes |-> "ttfA", id |-> 1]
  /\ cache["f"].source.bytes = "ttfB" /\ cache["f"].source.id > 1


\* C5 (as claimed): the cache parses a font at most once per name and
\* replacement epoch, also for concurrent first get calls: a parse is run
\* only for an entry that holds no parsed font, and a parsed font, once set,
\* is overwritten only together with the source.
C5_ParseOncePerEpoch ==
  [][/\ (last'.op = "get" /\ last'.parse)
          => cache[last'.name].parsed = NoFont
     /\ \A n \in Names :
          (cache[n].parsed # NoFont /\ cache'[n].parsed # cache[n].parsed)
            => cache'[n].source # cache[n].source]_vars

\* C6: with a single caller, a successful get leaves the Font it returned in
\* the entry, only replace and remove of the name take it out again, and a
\* get that finds a Font in the entry returns it without a parse: so a get
\* that follows a successful get of the name, with no replace or remove of
\* the name in between, returns the same Font and parses nothing.
C6_GetIdempotent ==
  [][/\ (last'.op = "get" /\ last'.res.kind = "Ok")
          => cache'[last'.name].parsed = last'.res.font
     /\ \A n \in Names :
          (cache[n].parsed # NoFont /\ cache'[n].parsed # cache[n].parsed)
            => (last'.op \in {"replace", "remove"} /\ last'.name = n)
     /\ (last'.op = "get" /\ cache[last'.name].parsed # NoFont)
          => /\ last'.res = Ok(cache[last'.name].parsed)
             /\ ~last'.parse
             /\ next_hid' = next_hid
             /\ cache' = cache]_vars

\* A get served from the parse an earlier get has stored.
C6_Witness ==
  /\ last.op = "get" /\ last.res.kind = "Ok" /\ ~last.parse
  /\ last.res.font = cache[last.name].parsed

\* C7: replace drops the cached parse, the cache never holds a parse of
\* another source than the registered one, and a get that returns a Font
\* returns one parsed from the source registered at its return, which is
\* never older than the source registered when the get started (so never
\* older than one a replace installed before that).
C7_GetAfterReplaceIsFresh ==
  /\ last.op = "replace"
       => cache[last.name] = [source |-> [bytes |-> last.bytes,
                                          id |-> next_src - 1],
                              parsed |-> NoFont]
  /\ \A n \in Names :
       cache[n].parsed # NoFont => cache[n].parsed.src = cache[n].source
  /\ (last.op = "get" /\ last.res.kind = "Ok")
       => /\ last.res.font.src = cache[last.name].source
          /\ last.res.font.src.id >= last.seen

\* A get that parsed the second registered source after an earlier parse (of
\* the first) had been handed out.
C7_Witness ==
  /\ last.op = "get" /\ last.res.kind = "Ok" /\ last.parse
  /\ last.res.font.hid = 2 /\ last.res.font.src.id = 2
  /\ last.seen = 2

\* C8: add on a registered name returns Ok and changes nothing; add on an
\* absent name and replace on any name register the given bytes with no
\* cached parse, and leave every other name alone.
C8_AddKeepsReplaceOverwrites ==
  [][/\ (last'.op = "add" /\ cache[last'.name] # NoEntry)
          => (cache' = cache /\ last'.res.kind = "Ok")
     /\ ((last'.op = "add" /\ cache[last'.name] = NoEntry)
          \/ last'.op = "replace")
          => /\ cache'[last'.name].source.bytes = last'.bytes
             /\ cache'[last'.name].source.id \notin
                  {cache[n].source.id : n \in Names}
             /\ cache'[last'.name].parsed = NoFont
             /\ \A n \in Names \ {last'.name} : cache'[n] = cache[n]]_vars

\* An add of other bytes under a name that holds a cached parse.
C8_Witness ==
  /\ last.op = "add"
  /\ cache[last.name].source.bytes # last.bytes
  /\ cache[last.name].parsed # NoFont

\* C9: a get that finds no source under the name fails with
\* UnknownFont(name), UnknownFont is returned in no other case, and a get
\* that fails leaves the cache as it was.
C9_UnknownFont ==
  [][last'.op = "get"
       => /\ cache[last'.name] = NoEntry
               <=> last'.res = Err("UnknownFont", last'.name)
          /\ last'.res.kind # "UnknownFont" \/ last'.res.arg = last'.name
          /\ IsErr(last'.res) => cache' = cache]_vars

\* A get of a name that was registered when the get started and removed
\* before it took the write lock, while the other name stays registered.
C9_Witness ==
  /\ last.op = "get" /\ last.res.kind = "UnknownFont"
  /\ last.seen > 0
  /\ \E n \in Names : cache[n] # NoEntry

\* C10 (as claimed): a get whose parse fails returns MalformedFont(name).
C10_MalformedFont ==
  (last.op = "get" /\ last.parse /\ last.res.kind # "Ok")
    => last.res = Err("MalformedFont", last.name)

====
